---- MODULE Spec2Model ----
(***************************************************************************)
(* Model of the body-measurement pipeline of single_person_processor.py    *)
(* (SinglePersonPredictor, ImagePreprocessor) and of its caller main.py.    *)
(*                                                                         *)
(* Units.  Every real quantity (a measurement, a height, a weight) is held *)
(* as an integer number of hundredths: 97.00 cm is 9700.  The raw output   *)
(* of the prediction capability is held in eighths of a centimetre, which  *)
(* float32 represents exactly, so that round(x, 2) is modelled by what it  *)
(* does (round-half-even to hundredths) and not as the identity.           *)
(***************************************************************************)
EXTENDS Integers, Sequences, FiniteSets, TLC

VARIABLES
    pc,             \* position of the running call
    gender,         \* argument gender
    height_cm,      \* argument height_cm
    weight_kg,      \* argument weight_kg / weight
    apparel_type,   \* argument apparel_type
    calls,          \* the capabilities and stages invoked so far, in order
    prediction,     \* output vector of model.predict (eighths), or NoValue
    measurements,   \* the measurements dict (hundredths), or NoValue
    base_size,      \* local base_size right after the chart lookup
    result,         \* the value returned, or NoValue
    error           \* the exception that left the call, or NoValue

vars == <<pc, gender, height_cm, weight_kg, apparel_type, calls, prediction,
          measurements, base_size, result, error>>

(***************************************************************************)
(* Bounds of the model                                                     *)
(***************************************************************************)
\* sample values lie within Margin hundredths of every threshold of the code
Margin == 1

\* calls of a size function made one after the other on growing measurements
MaxCalls == 2

\* the sampled bodies are the base body made 0..MaxShift centimetres larger
MaxShift == 3

(***************************************************************************)
(* Values                                                                  *)
(***************************************************************************)
Scale == 100

NoValue == [tag |-> "none"]
Num(v) == [tag |-> "num", v |-> v]
Str(s) == [tag |-> "str", s |-> s]
IsNum(x) == x.tag = "num"

Around(t) == {t * Scale + d : d \in (0 - Margin)..Margin}

MEASUREMENT_INDICES_Swapped ==
    ("ankle" :> 0) @@ ("arm-length" :> 1) @@ ("bicep" :> 2) @@ ("calf" :> 3) @@
    ("chest" :> 7) @@ ("forearm" :> 5) @@ ("height" :> 6) @@ ("hip" :> 4) @@
    ("leg-length" :> 8) @@ ("shoulder-breadth" :> 9) @@
    ("shoulder-to-crotch" :> 10) @@ ("thigh" :> 11) @@ ("waist" :> 12) @@
    ("wrist" :> 13)

MEASUREMENT_INDICES ==
    ("ankle" :> 0) @@ ("arm-length" :> 1) @@ ("bicep" :> 2) @@ ("calf" :> 3) @@
    ("chest" :> 4) @@ ("forearm" :> 5) @@ ("height" :> 6) @@ ("hip" :> 7) @@
    ("leg-length" :> 8) @@ ("shoulder-breadth" :> 9) @@
    ("shoulder-to-crotch" :> 10) @@ ("thigh" :> 11) @@ ("waist" :> 12) @@
    ("wrist" :> 13)

MeasurementNames == DOMAIN MEASUREMENT_INDICES

SIZE_CHARTS ==
    [male |->
        [tshirt |-> << <<97, 42, "S">>, <<104, 45, "M">>, <<112, 48, "L">>,
                       <<120, 51, "XL">>, <<128, 54, "XXL">>, <<136, 57, "XXXL">> >>,
         pants  |-> << <<76, 102, 30>>, <<81, 107, 32>>, <<86, 112, 34>>,
                       <<91, 117, 36>>, <<97, 122, 38>>, <<102, 127, 40>>,
                       <<107, 132, 42>> >>],
     female |->
        [tshirt |-> << <<89, 38, "S">>, <<96, 41, "M">>, <<104, 44, "L">>,
                       <<112, 47, "XL">>, <<120, 50, "XXL">>, <<128, 53, "XXXL">> >>,
         pants  |-> << <<66, 92, 26>>, <<71, 97, 28>>, <<76, 102, 30>>,
                       <<81, 107, 32>>, <<86, 112, 34>>, <<91, 117, 36>>,
                       <<97, 122, 38>> >>]]

GenderStr(g) == IF g = 0 THEN "male" ELSE "female"

(***************************************************************************)
(* calculate_tshirt_size                                                   *)
(***************************************************************************)
TshirtFits_AnyAxis(entry, chest, shoulder_breadth) ==
    chest <= entry[1] * Scale \/ shoulder_breadth <= entry[2] * Scale

TshirtFits_Reversed(entry, chest, shoulder_breadth) ==
    chest >= entry[1] * Scale /\ shoulder_breadth >= entry[2] * Scale

\* the filter of the generator: chest <= max_chest and shoulder_breadth <= max_shoulder
TshirtFits(entry, chest, shoulder_breadth) ==
    chest <= entry[1] * Scale /\ shoulder_breadth <= entry[2] * Scale

\* next((size for ... in chart if ...), 'XXXL'): scan from entry i on
RECURSIVE TshirtNext(_, _, _, _)
TshirtNext(chart, i, chest, shoulder_breadth) ==
    IF i > Len(chart) THEN "XXXL"
    ELSE IF TshirtFits(chart[i], chest, shoulder_breadth) THEN chart[i][3]
    ELSE TshirtNext(chart, i + 1, chest, shoulder_breadth)

TshirtBaseSize(g, m) ==
    TshirtNext(SIZE_CHARTS[GenderStr(g)].tshirt, 1, m["chest"], m["shoulder-breadth"])

WeightOverride_Inclusive(g, weight) ==
    (weight >= 95 * Scale /\ g = 0) \/ (weight >= 80 * Scale /\ g = 1)

\* weight > 95 and gender == 0 or weight > 80 and gender == 1
WeightOverride(g, weight) ==
    (weight > 95 * Scale /\ g = 0) \/ (weight > 80 * Scale /\ g = 1)

\* measurements['height'] > 180
IsTall(m) == m["height"] > 180 * Scale

TshirtFinal(g, m, weight, base) ==
    LET overridden == IF WeightOverride(g, weight) THEN "XXL" ELSE base
    IN  IF IsTall(m) THEN "Tall " \o overridden ELSE overridden

calculate_tshirt_size(g, m, weight) ==
    TshirtFinal(g, m, weight, TshirtBaseSize(g, m))

(***************************************************************************)
(* calculate_pants_size                                                    *)
(***************************************************************************)
PantsFits_AnyAxis(entry, waist, hip) ==
    waist <= entry[1] * Scale \/ hip <= entry[2] * Scale

\* the filter of the generator: waist <= max_waist and hip <= max_hip
PantsFits(entry, waist, hip) ==
    waist <= entry[1] * Scale /\ hip <= entry[2] * Scale

\* next((size for ... in chart if ...), chart[-1][2]): scan from entry i on
RECURSIVE PantsNext(_, _, _, _)
PantsNext(chart, i, waist, hip) ==
    IF i > Len(chart) THEN chart[Len(chart)][3]
    ELSE IF PantsFits(chart[i], waist, hip) THEN chart[i][3]
    ELSE PantsNext(chart, i + 1, waist, hip)

PantsBaseSize(g, m) ==
    PantsNext(SIZE_CHARTS[GenderStr(g)].pants, 1, m["waist"], m["hip"])

PantsAdjust_NoCeiling(g, m, base) ==
    IF IsTall(m) /\ g = 0 THEN base + 2 ELSE base

PantsAdjust_AnyGender(g, m, base) ==
    IF IsTall(m) THEN base + (IF base < 40 THEN 2 ELSE 0) ELSE base

\* if measurements['height'] > 180 and gender == 0: base_size += 2 if base_size < 40 else 0
PantsAdjust(g, m, base) ==
    IF IsTall(m) /\ g = 0 THEN base + (IF base < 40 THEN 2 ELSE 0) ELSE base

calculate_pants_size(g, m, weight) ==
    PantsAdjust(g, m, PantsBaseSize(g, m))

\* calculate_apparel_size: both sizes, t-shirt first
calculate_apparel_size(g, m, weight) ==
    <<calculate_tshirt_size(g, m, weight), calculate_pants_size(g, m, weight)>>

(***************************************************************************)
(* Sample inputs of the size functions                                     *)
(***************************************************************************)
\* a plausible body, in centimetres; the size functions read five of these
BaseCm ==
    ("ankle" :> 22) @@ ("arm-length" :> 50) @@ ("bicep" :> 30) @@ ("calf" :> 36) @@
    ("chest" :> 95) @@ ("forearm" :> 26) @@ ("height" :> 178) @@ ("hip" :> 100) @@
    ("leg-length" :> 78) @@ ("shoulder-breadth" :> 41) @@
    ("shoulder-to-crotch" :> 64) @@ ("thigh" :> 54) @@ ("waist" :> 80) @@
    ("wrist" :> 16)

BaseMeasurements == [k \in MeasurementNames |-> BaseCm[k] * Scale]

\* the values within Margin of the thresholds of column col of a chart
ChartSamples(chart, col) == UNION {Around(chart[i][col]) : i \in 1..Len(chart)}

HeightSamples == Around(180)
WeightSamples == Around(95) \cup Around(80)

TshirtInputs(g) ==
    LET chart == SIZE_CHARTS[GenderStr(g)].tshirt
    IN  {[BaseMeasurements EXCEPT !["chest"] = c, !["shoulder-breadth"] = s,
                                  !["height"] = h] :
            c \in ChartSamples(chart, 1), s \in ChartSamples(chart, 2),
            h \in HeightSamples}

PantsInputs(g) ==
    LET chart == SIZE_CHARTS[GenderStr(g)].pants
    IN  {[BaseMeasurements EXCEPT !["waist"] = w, !["hip"] = hp, !["height"] = h] :
            w \in ChartSamples(chart, 1), hp \in ChartSamples(chart, 2),
            h \in HeightSamples}

(***************************************************************************)
(* SpecTshirt: calculate_tshirt_size applied to sampled arguments          *)
(***************************************************************************)
InitIdle ==
    /\ height_cm = NoValue
    /\ apparel_type = NoValue
    /\ calls = << >>
    /\ prediction = NoValue
    /\ base_size = NoValue
    /\ result = NoValue
    /\ error = NoValue

InitTshirt ==
    /\ pc = "calculate_tshirt_size"
    /\ gender \in {Num(0), Num(1)}
    /\ weight_kg \in {Num(w) : w \in WeightSamples}
    /\ measurements \in TshirtInputs(gender.v)
    /\ InitIdle

CalculateTshirtSize ==
    /\ pc = "calculate_tshirt_size"
    /\ base_size' = TshirtBaseSize(gender.v, measurements)
    /\ result' = calculate_tshirt_size(gender.v, measurements, weight_kg.v)
    /\ calls' = Append(calls, "calculate_tshirt_size")
    /\ pc' = "returned"
    /\ UNCHANGED <<gender, height_cm, weight_kg, apparel_type, prediction,
                   measurements, error>>

NextTshirt == CalculateTshirtSize

SpecTshirt == InitTshirt /\ [][NextTshirt]_vars

(***************************************************************************)
(* SpecPants: calculate_pants_size applied to sampled arguments            *)
(***************************************************************************)
InitPants ==
    /\ pc = "calculate_pants_size"
    /\ gender \in {Num(0), Num(1)}
    /\ weight_kg \in {Num(w) : w \in WeightSamples}
    /\ measurements \in PantsInputs(gender.v)
    /\ InitIdle

CalculatePantsSize ==
    /\ pc = "calculate_pants_size"
    /\ base_size' = PantsBaseSize(gender.v, measurements)
    /\ result' = calculate_pants_size(gender.v, measurements, weight_kg.v)
    /\ calls' = Append(calls, "calculate_pants_size")
    /\ pc' = "returned"
    /\ UNCHANGED <<gender, height_cm, weight_kg, apparel_type, prediction,
                   measurements, error>>

NextPants == CalculatePantsSize

SpecPants == InitPants /\ [][NextPants]_vars

(***************************************************************************)
(* Claims about the size functions                                         *)
(***************************************************************************)
Least(S) == CHOOSE i \in S : \A j \in S : i <= j

\* the chart rows whose two maxima are both at least a and b
RowsCovering(chart, a, b) ==
    {i \in 1..Len(chart) : chart[i][1] * Scale >= a /\ chart[i][2] * Scale >= b}

\* C3: the t-shirt base label is the label of the first chart row, smallest
\* first, whose max_chest >= chest and max_shoulder_breadth >= shoulder-breadth
\* (both, boundaries included); "XXXL" when no row covers both.
C3_TshirtChartLookup ==
    pc = "returned" =>
        LET chart == SIZE_CHARTS[GenderStr(gender.v)].tshirt
            rows  == RowsCovering(chart, measurements["chest"],
                                  measurements["shoulder-breadth"])
        IN  base_size = IF rows = {} THEN "XXXL" ELSE chart[Least(rows)][3]

\* a chest on the "S" boundary with shoulders that only the "XL" row covers
C3_Witness ==
    /\ pc = "returned"
    /\ gender = Num(0)
    /\ measurements["chest"] = 97 * Scale
    /\ measurements["shoulder-breadth"] = 48 * Scale + 1
    /\ base_size = "XL"

\* C4: the returned label is B, prefixed "Tall " exactly when the measured
\* height is > 180; B is "XXL" when (male and weight > 95) or (female and
\* weight > 80), whatever the chart gave, and the chart label otherwise.
C4_TshirtLabelComposition ==
    pc = "returned" =>
        LET heavy == \/ gender.v = 0 /\ weight_kg.v > 95 * Scale
                     \/ gender.v = 1 /\ weight_kg.v > 80 * Scale
            B     == IF heavy THEN "XXL" ELSE base_size
        IN  /\ measurements["height"] > 180 * Scale => result = "Tall " \o B
            /\ measurements["height"] <= 180 * Scale => result = B

\* a tall, heavy subject whose chart label would be "XXXL" gets "Tall XXL"
C4_Witness ==
    /\ pc = "returned"
    /\ base_size = "XXXL"
    /\ weight_kg.v > 95 * Scale
    /\ measurements["height"] > 180 * Scale
    /\ result = "Tall XXL"

\* C5: the pants base size is the size of the first chart row, smallest first,
\* whose max_waist >= waist and max_hip >= hip (boundaries included); the size
\* of the chart's last row (42 male, 38 female) when no row covers both.
C5_PantsChartLookup ==
    pc = "returned" =>
        LET chart == SIZE_CHARTS[GenderStr(gender.v)].pants
            rows  == RowsCovering(chart, measurements["waist"], measurements["hip"])
        IN  /\ base_size = IF rows = {} THEN chart[Len(chart)][3]
                           ELSE chart[Least(rows)][3]
            /\ rows = {} => base_size = IF gender.v = 0 THEN 42 ELSE 38

\* a female subject beyond every row of the chart gets the last size, 38
C5_Witness ==
    /\ pc = "returned"
    /\ gender = Num(1)
    /\ measurements["waist"] > 97 * Scale
    /\ measurements["hip"] > 122 * Scale
    /\ base_size = 38

\* C6: the returned pants size is the chart size plus 2 exactly when the
\* subject is male, the measured height is > 180 and the chart size is < 40;
\* otherwise it is the chart size unchanged.
C6_PantsTallAdjustment ==
    pc = "returned" =>
        LET bump == /\ gender.v = 0
                    /\ measurements["height"] > 180 * Scale
                    /\ base_size < 40
        IN  /\ bump => result = base_size + 2
            /\ ~bump => result = base_size

\* a tall male with chart size 38 leaves with 40
C6_Witness ==
    /\ pc = "returned"
    /\ gender = Num(0)
    /\ measurements["height"] > 180 * Scale
    /\ base_size = 38
    /\ result = 40

(***************************************************************************)
(* SpecTshirtMono, SpecPantsMono: a size function called again on          *)
(* measurements that are no smaller, everything else held fixed            *)
(***************************************************************************)
\* weights on both sides of both override thresholds; heights on both sides of 180
MonoWeights == {80 * Scale, 95 * Scale, 95 * Scale + 1}
MonoHeights == {180 * Scale, 180 * Scale + 1}

\* the last value under the first threshold of column col of a chart, every
\* threshold, and the first value past each
MonoSamples(chart, col) ==
    {chart[1][col] * Scale - 1} \cup
    UNION {{chart[i][col] * Scale, chart[i][col] * Scale + 1} : i \in 1..Len(chart)}

TshirtMonoInputs(g) ==
    LET chart == SIZE_CHARTS[GenderStr(g)].tshirt
    IN  {[BaseMeasurements EXCEPT !["chest"] = c, !["shoulder-breadth"] = s,
                                  !["height"] = h] :
            c \in MonoSamples(chart, 1), s \in MonoSamples(chart, 2),
            h \in MonoHeights}

PantsMonoInputs(g) ==
    LET chart == SIZE_CHARTS[GenderStr(g)].pants
    IN  {[BaseMeasurements EXCEPT !["waist"] = w, !["hip"] = hp, !["height"] = h] :
            w \in MonoSamples(chart, 1), hp \in MonoSamples(chart, 2),
            h \in MonoHeights}

InitTshirtMono ==
    /\ pc = "calculate_tshirt_size"
    /\ gender \in {Num(0), Num(1)}
    /\ weight_kg \in {Num(w) : w \in MonoWeights}
    /\ measurements \in TshirtMonoInputs(gender.v)
    /\ InitIdle

CalculateTshirtSizeAgain ==
    /\ pc = "returned"
    /\ Len(calls) < MaxCalls
    /\ \E m \in TshirtMonoInputs(gender.v) :
          /\ m["height"] = measurements["height"]
          /\ m["chest"] >= measurements["chest"]
          /\ m["shoulder-breadth"] >= measurements["shoulder-breadth"]
          /\ measurements' = m
          /\ base_size' = TshirtBaseSize(gender.v, m)
          /\ result' = calculate_tshirt_size(gender.v, m, weight_kg.v)
    /\ calls' = Append(calls, "calculate_tshirt_size")
    /\ UNCHANGED <<pc, gender, height_cm, weight_kg, apparel_type, prediction, error>>

NextTshirtMono == CalculateTshirtSize \/ CalculateTshirtSizeAgain

SpecTshirtMono == InitTshirtMono /\ [][NextTshirtMono]_vars

InitPantsMono ==
    /\ pc = "calculate_pants_size"
    /\ gender \in {Num(0), Num(1)}
    /\ weight_kg \in {Num(w) : w \in MonoWeights}
    /\ measurements \in PantsMonoInputs(gender.v)
    /\ InitIdle

CalculatePantsSizeAgain ==
    /\ pc = "returned"
    /\ Len(calls) < MaxCalls
    /\ \E m \in PantsMonoInputs(gender.v) :
          /\ m["height"] = measurements["height"]
          /\ m["waist"] >= measurements["waist"]
          /\ m["hip"] >= measurements["hip"]
          /\ measurements' = m
          /\ base_size' = PantsBaseSize(gender.v, m)
          /\ result' = calculate_pants_size(gender.v, m, weight_kg.v)
    /\ calls' = Append(calls, "calculate_pants_size")
    /\ UNCHANGED <<pc, gender, height_cm, weight_kg, apparel_type, prediction, error>>

NextPantsMono == CalculatePantsSize \/ CalculatePantsSizeAgain

SpecPantsMono == InitPantsMono /\ [][NextPantsMono]_vars

TierLabels == <<"S", "M", "L", "XL", "XXL", "XXXL">>

\* position of a returned label in S < M < L < XL < XXL < XXXL, "Tall " aside
TierIndex(label) ==
    CHOOSE i \in 1..Len(TierLabels) :
        label = TierLabels[i] \/ label = "Tall " \o TierLabels[i]

\* C7: with gender, weight and height fixed, a call on a chest and a
\* shoulder-breadth that are both no smaller never selects a lower tier.
C7_TshirtMonotonic ==
    [][(/\ pc = "returned" /\ pc' = "returned"
        /\ gender' = gender /\ weight_kg' = weight_kg
        /\ measurements'["height"] = measurements["height"]
        /\ measurements["chest"] <= measurements'["chest"]
        /\ measurements["shoulder-breadth"] <= measurements'["shoulder-breadth"])
       => TierIndex(result) <= TierIndex(result')]_vars

\* a second call, on larger measurements, that ended on the chart's largest tier
C7_Witness ==
    /\ pc = "returned"
    /\ Len(calls) = 2
    /\ ~WeightOverride(gender.v, weight_kg.v)
    /\ measurements["chest"] > 97 * Scale
    /\ TierIndex(result) = 6

PantsChartSizes(g) ==
    LET chart == SIZE_CHARTS[GenderStr(g)].pants
    IN  {chart[i][3] : i \in 1..Len(chart)}

\* C10: the returned pants size never leaves the range of the gender's chart
\* (male 30..42, female 26..38), and with gender and height fixed a call on a
\* waist and a hip that are both no smaller never returns a smaller size.
C10_PantsFinalMonotonicInRange ==
    /\ [](pc = "returned" =>
            /\ \A sz \in PantsChartSizes(gender.v) :
                  (\A other \in PantsChartSizes(gender.v) : other <= sz) => result <= sz
            /\ \A sz \in PantsChartSizes(gender.v) :
                  (\A other \in PantsChartSizes(gender.v) : sz <= other) => sz <= result
            /\ result >= (IF gender.v = 0 THEN 30 ELSE 26)
            /\ result <= (IF gender.v = 0 THEN 42 ELSE 38))
    /\ [][(/\ pc = "returned" /\ pc' = "returned"
           /\ gender' = gender
           /\ measurements'["height"] = measurements["height"]
           /\ measurements["waist"] <= measurements'["waist"]
           /\ measurements["hip"] <= measurements'["hip"])
          => result <= result']_vars

\* a tall male called again on larger measurements: chart size 40, returned 40
C10_Witness ==
    /\ pc = "returned"
    /\ Len(calls) = 2
    /\ gender = Num(0)
    /\ measurements["height"] > 180 * Scale
    /\ base_size = 40
    /\ result = 40

(***************************************************************************)
(* predict_measurements: validation                                        *)
(***************************************************************************)
\* gender in (0, 1)
GenderOk(g) == IsNum(g) /\ g.v \in {0, 1}

HeightOk_NoUpperBound(h) == 100 * Scale <= h.v

\* 100 <= height_cm <= 250, on a number
HeightOk(h) == 100 * Scale <= h.v /\ h.v <= 250 * Scale

\* 30 <= weight_kg <= 300, on a number
WeightOk(w) == 30 * Scale <= w.v /\ w.v <= 300 * Scale

\* apparel_type in ["tshirt", "pants", "all"]
ApparelOk(a) == a.tag = "str" /\ a.s \in {"tshirt", "pants", "all"}

ValueError(msg) == [kind |-> "ValueError", message |-> msg]

\* what the chained comparison raises on a value that is no number
TypeError ==
    [kind |-> "TypeError",
     message |-> "'<=' not supported between instances of 'int' and 'NoneType'"]

ValidationMessage ==
    [gender       |-> "Gender must be 0 (male) or 1 (female).",
     height_cm    |-> "Height must be between 100-250 cm.",
     weight_kg    |-> "Weight must be between 30-300 kg.",
     apparel_type |-> "Apparel type must be 'tshirt', 'pants', or 'all'."]

\* the four checks in the order of the code: the exception raised, or NoValue
Validate(g, h, w, a) ==
    IF ~GenderOk(g) THEN ValueError(ValidationMessage.gender)
    ELSE IF ~IsNum(h) THEN TypeError
    ELSE IF ~HeightOk(h) THEN ValueError(ValidationMessage.height_cm)
    ELSE IF ~IsNum(w) THEN TypeError
    ELSE IF ~WeightOk(w) THEN ValueError(ValidationMessage.weight_kg)
    ELSE IF ~ApparelOk(a) THEN ValueError(ValidationMessage.apparel_type)
    ELSE NoValue

(***************************************************************************)
(* predict_measurements: the two capabilities                              *)
(***************************************************************************)
\* exceptions the segmentation capability and the image library raise
SegmentationCauses ==
    {[kind |-> "UnidentifiedImageError", message |-> "cannot identify image file"],
     [kind |-> "ValueError", message |-> "Decompressed Data Too Large"]}

\* exceptions the prediction capability raises
PredictionCauses ==
    {[kind |-> "InvalidArgumentError", message |-> "Graph execution error"],
     [kind |-> "ValueError", message |-> "Input 0 is incompatible with the layer"]}

\* the base body by output position, in centimetres
BasePrediction == <<22, 50, 30, 36, 95, 26, 178, 100, 78, 41, 64, 54, 80, 16>>

\* output vectors of model.predict, in eighths of a centimetre
PredictionVectors ==
    {[i \in 0..13 |-> 8 * (BasePrediction[i + 1] + shift) + f] :
        shift \in 0..MaxShift, f \in 0..7}

\* round(float(x), 2) of x = e/8: hundredths, an exact tie going to the even one
Round2(e) ==
    LET n == e * 25
        q == n \div 2
    IN  IF n % 2 = 0 THEN q
        ELSE IF q % 2 = 0 THEN q ELSE q + 1

\* measurements = {name: round(float(prediction[0][idx]), 2) for name, idx in ...}
Measurements(p) ==
    [name \in DOMAIN MEASUREMENT_INDICES |-> Round2(p[MEASUREMENT_INDICES[name]])]

upper_body_keys ==
    {"chest", "shoulder-breadth", "bicep", "forearm", "wrist", "arm-length",
     "shoulder-to-crotch"}

lower_body_keys == {"waist", "hip", "thigh", "calf", "ankle", "leg-length"}

\* {k: measurements[k] for k in keys if k in measurements}
Subset(m, keys) == [k \in keys \cap DOMAIN m |-> m[k]]

\* the result dict built for the requested apparel_type
BuildResult(a, g, m, weight) ==
    IF a = "tshirt" THEN
        ("tshirt_size" :> calculate_tshirt_size(g, m, weight)) @@
        ("upper_body_measurements" :> Subset(m, upper_body_keys))
    ELSE IF a = "pants" THEN
        ("pants_size" :> calculate_pants_size(g, m, weight)) @@
        ("lower_body_measurements" :> Subset(m, lower_body_keys))
    ELSE
        LET sizes == calculate_apparel_size(g, m, weight)
        IN  ("body_measurements" :> m) @@
            ("tshirt_size" :> sizes[1]) @@
            ("pants_size" :> sizes[2])

(***************************************************************************)
(* Spec: one request, from the call made by predict() to its end           *)
(***************************************************************************)
GenderInputs == {Num(0), Num(1), Num(2), NoValue}
HeightInputs == {Num(h) : h \in Around(100) \cup Around(250)} \cup {NoValue}
WeightInputs == {Num(w) : w \in Around(30) \cup Around(300)} \cup {NoValue}
ApparelInputs == {Str("tshirt"), Str("pants"), Str("all"), Str("shirt"), NoValue}

\* predict() hands over input_dict.get(...) of each field: a value, or None
Init ==
    /\ pc = "start"
    /\ gender \in GenderInputs
    /\ height_cm \in HeightInputs
    /\ weight_kg \in WeightInputs
    /\ apparel_type \in ApparelInputs
    /\ calls = << >>
    /\ prediction = NoValue
    /\ measurements = NoValue
    /\ base_size = NoValue
    /\ result = NoValue
    /\ error = NoValue

ValidateInputs ==
    /\ pc = "start"
    /\ calls' = Append(calls, "validate")
    /\ LET e == Validate(gender, height_cm, weight_kg, apparel_type)
       IN  IF e = NoValue
           THEN pc' = "validated" /\ error' = error
           ELSE pc' = "raised" /\ error' = e
    /\ UNCHANGED <<gender, height_cm, weight_kg, apparel_type, prediction,
                   measurements, base_size, result>>

\* self._process_image(front_path): an array, or the capability's exception re-raised
SegmentFront ==
    /\ pc = "validated"
    /\ calls' = Append(calls, "segment_front")
    /\ \/ pc' = "front_done" /\ error' = error
       \/ \E cause \in SegmentationCauses : pc' = "raised" /\ error' = cause
    /\ UNCHANGED <<gender, height_cm, weight_kg, apparel_type, prediction,
                   measurements, base_size, result>>

\* self._process_image(side_path), evaluated after the front image
SegmentSide ==
    /\ pc = "front_done"
    /\ calls' = Append(calls, "segment_side")
    /\ \/ pc' = "side_done" /\ error' = error
       \/ \E cause \in SegmentationCauses : pc' = "raised" /\ error' = cause
    /\ UNCHANGED <<gender, height_cm, weight_kg, apparel_type, prediction,
                   measurements, base_size, result>>

\* self.model.predict([...]): a vector, or the capability's exception re-raised
Predict ==
    /\ pc = "side_done"
    /\ calls' = Append(calls, "predict")
    /\ \/ \E v \in PredictionVectors :
            pc' = "predicted" /\ prediction' = v /\ error' = error
       \/ \E cause \in PredictionCauses :
            pc' = "raised" /\ error' = cause /\ prediction' = prediction
    /\ UNCHANGED <<gender, height_cm, weight_kg, apparel_type, measurements,
                   base_size, result>>

\* the measurements dict, the sizes and the result dict; return result
Classify ==
    /\ pc = "predicted"
    /\ calls' = Append(calls, "classify")
    /\ measurements' = Measurements(prediction)
    /\ result' = BuildResult(apparel_type.s, gender.v, measurements', weight_kg.v)
    /\ pc' = "returned"
    /\ UNCHANGED <<gender, height_cm, weight_kg, apparel_type, prediction,
                   base_size, error>>

Next == ValidateInputs \/ SegmentFront \/ SegmentSide \/ Predict \/ Classify

Spec == Init /\ [][Next]_vars

(***************************************************************************)
(* Claims about one request                                                *)
(***************************************************************************)
\* the fields whose value lies outside the documented range or set
Offending ==
    {f \in {"gender", "height_cm", "weight_kg", "apparel_type"} :
        \/ f = "gender" /\ ~(gender.tag = "num" /\ gender.v \in {0, 1})
        \/ f = "height_cm" /\
              ~(height_cm.tag = "num" /\ height_cm.v >= 100 * Scale
                                      /\ height_cm.v <= 250 * Scale)
        \/ f = "weight_kg" /\
              ~(weight_kg.tag = "num" /\ weight_kg.v >= 30 * Scale
                                      /\ weight_kg.v <= 300 * Scale)
        \/ f = "apparel_type" /\
              ~(apparel_type.tag = "str" /\
                apparel_type.s \in {"tshirt", "pants", "all"})}

RejectedByValidation == pc = "raised" /\ calls = <<"validate">>

\* C1: once validation has run, a request whose four fields are all in range
\* is accepted, and a request with a field out of range is rejected with the
\* validation error (the code's ValueError) whose message names an offending
\* field and its range, and returns nothing.
C1_ValidationContract ==
    Len(calls) >= 1 =>
        IF Offending = {}
        THEN ~RejectedByValidation
        ELSE /\ RejectedByValidation
             /\ result = NoValue
             /\ error.kind = "ValueError"
             /\ \E f \in Offending : error.message = ValidationMessage[f]

\* C1 on the requests whose height and weight are numbers: the contract holds
C1_NumericRequestsContract ==
    (height_cm.tag = "num" /\ weight_kg.tag = "num") => C1_ValidationContract

StageOrder == <<"validate", "segment_front", "segment_side", "predict", "classify">>

IsPrefix(s, t) == Len(s) <= Len(t) /\ \A i \in 1..Len(s) : s[i] = t[i]

\* C2: the stages are invoked in the order validation, front segmentation,
\* side segmentation, prediction, classification, each at most once; nothing
\* past validation is invoked on a request with a field out of range; a
\* request that failed has no result and takes no further step; a result
\* exists only after all five stages.
C2_FailFastStageOrder ==
    /\ [](/\ IsPrefix(calls, StageOrder)
          /\ (Len(calls) >= 2 => Offending = {})
          /\ (pc = "raised" => result = NoValue /\ error # NoValue)
          /\ (result # NoValue => calls = StageOrder /\ error = NoValue))
    /\ [][pc # "raised" /\ pc # "returned"]_vars

\* the front image failed: the side image, the prediction and the
\* classification were never invoked and nothing is returned
C2_Witness ==
    /\ pc = "raised"
    /\ calls = <<"validate", "segment_front">>
    /\ result = NoValue

Vocabulary ==
    <<"ankle", "arm-length", "bicep", "calf", "chest", "forearm", "height", "hip",
      "leg-length", "shoulder-breadth", "shoulder-to-crotch", "thigh", "waist",
      "wrist">>

\* the fixed position of a name in the output vector
VocabularyIndex(k) == CHOOSE i \in 0..13 : Vocabulary[i + 1] = k

UpperBodyNames ==
    {"chest", "shoulder-breadth", "bicep", "forearm", "wrist", "arm-length",
     "shoulder-to-crotch"}
LowerBodyNames == {"waist", "hip", "thigh", "calf", "ankle", "leg-length"}
AllNames == {Vocabulary[i] : i \in 1..14}

\* the keys of the result and of its measurement subset, per apparel_type
ResultShape(subset_key, names, sizes) ==
    /\ DOMAIN result = {subset_key} \cup sizes
    /\ DOMAIN result[subset_key] = names

ShapePerApparelType ==
    /\ apparel_type.s = "tshirt" =>
          ResultShape("upper_body_measurements", UpperBodyNames, {"tshirt_size"})
    /\ apparel_type.s = "pants" =>
          ResultShape("lower_body_measurements", LowerBodyNames, {"pants_size"})
    /\ apparel_type.s = "all" =>
          ResultShape("body_measurements", AllNames, {"tshirt_size", "pants_size"})

SurfacedMeasurements ==
    result[CHOOSE k \in DOMAIN result :
              k \in {"upper_body_measurements", "lower_body_measurements",
                     "body_measurements"}]

\* C8 as stated: the shape per apparel_type, and every surfaced value equal to
\* the value at its name's position of the prediction vector (a value v in
\* hundredths equals e eighths when 8 v = 100 e).
C8_SurfacedValuesEqualPrediction ==
    pc = "returned" =>
        /\ ShapePerApparelType
        /\ \A k \in DOMAIN SurfacedMeasurements :
              8 * SurfacedMeasurements[k] = 100 * prediction[VocabularyIndex(k)]

\* C8 as amended: the shape per apparel_type, and every surfaced value the
\* value at its name's position of the prediction vector rounded to 2
\* decimals: a whole number of hundredths at most 0.005 away from it.
C8_ResultShapeAndRoundedValues ==
    pc = "returned" =>
        /\ ShapePerApparelType
        /\ \A k \in DOMAIN SurfacedMeasurements :
              LET d == 8 * SurfacedMeasurements[k] - 100 * prediction[VocabularyIndex(k)]
              IN  d <= 4 /\ d >= 0 - 4

\* a "tshirt" request whose predicted chest is no whole number of hundredths
C8_Witness ==
    /\ pc = "returned"
    /\ apparel_type = Str("tshirt")
    /\ prediction[4] % 2 = 1
    /\ DOMAIN result = {"tshirt_size", "upper_body_measurements"}
    /\ 8 * result["upper_body_measurements"]["chest"] # 100 * prediction[4]

LastCall == calls[Len(calls)]

\* C9: a request that failed in segmentation ends with a ProcessingError that
\* names the side and carries the cause, one that failed in prediction ends
\* with a PredictionError carrying the cause, and the kind of the error of one
\* stage is never the kind of the error of another.
C9_ErrorKindIdentifiesStage ==
    (pc = "raised" /\ LastCall # "validate") =>
        /\ LastCall \in {"segment_front", "segment_side"} =>
              /\ error.kind = "ProcessingError"
              /\ "side" \in DOMAIN error
              /\ "cause" \in DOMAIN error
        /\ LastCall = "predict" =>
              /\ error.kind = "PredictionError"
              /\ "cause" \in DOMAIN error
        /\ error.kind # "ValueError"

\* what does hold of a failed capability: its own exception leaves the call
\* unchanged, and no result is returned
C9_CauseReraisedUnchanged ==
    (pc = "raised" /\ LastCall # "validate") =>
        /\ result = NoValue
        /\ LastCall \in {"segment_front", "segment_side"} => error \in SegmentationCauses
        /\ LastCall = "predict" => error \in PredictionCauses

====
